---- MODULE Spec2Model ----
(***************************************************************************)
(* Bit-parallel (bitap / shift-or) matching: pattern compilation, the      *)
(* three symbol-mask sources, the exact / Levenshtein / OSA engines of     *)
(* src/src/lib.rs, and the reference and brute-force engines of            *)
(* src/bitap-reference.                                                    *)
(*                                                                         *)
(* A machine word (usize) is modelled as the set of its bit indices that   *)
(* are 1, a subset of 0..W-1, so that every shift drops the bits that      *)
(* leave the word.  Characters are Unicode code points; a &str is a        *)
(* sequence of code points and its bytes are its UTF-8 encoding.           *)
(***************************************************************************)
EXTENDS Integers, Sequences, FiniteSets, TLC

\* Word width in bits (mem::size_of::<usize>() * 8), scaled down.
W == 6
\* Longest ASCII text, in code points.
MaxText == 4
\* Longest pattern or text that contains a non-ASCII code point.
MaxMixed == 2
\* Largest ordinary max_distance argument (usize::MAX is always added).
MaxK == 3

\* 'a' and 'b'.
AsciiAlphabet == {97, 98}
\* With U+0161 (non-ASCII, UTF-8 C5 A1, low byte 0x61 = 'a').
Alphabet == AsciiAlphabet \cup {353}

RECURSIVE Pow2(_)
Pow2(n) == IF n = 0 THEN 1 ELSE 2 * Pow2(n - 1)

UsizeMax == Pow2(W) - 1

RECURSIVE StringsOfLen(_, _)
StringsOfLen(alphabet, n) ==
  IF n = 0 THEN {<< >>}
  ELSE {Append(s, c) : s \in StringsOfLen(alphabet, n - 1), c \in alphabet}

StringsUpTo(alphabet, n) == UNION {StringsOfLen(alphabet, i) : i \in 0..n}

\* The strings of the test scenarios: "alex" in "hey im aelx", "abac" in "acb".
Alex == <<97, 108, 101, 120>>
HeyImAelx == <<104, 101, 121, 32, 105, 109, 32, 97, 101, 108, 120>>
Abac == <<97, 98, 97, 99>>
Acb == <<97, 99, 98>>
ScenarioPatterns == {Alex, Abac}
ScenarioTexts == {HeyImAelx, Acb}

\* Pattern strings include every length from 0 to W+1.
Patterns ==
  StringsUpTo(AsciiAlphabet, W + 1) \cup StringsUpTo(Alphabet, MaxMixed) \cup ScenarioPatterns
Texts ==
  StringsUpTo(AsciiAlphabet, MaxText) \cup StringsUpTo(Alphabet, MaxMixed) \cup ScenarioTexts
Distances == (0..MaxK) \cup {UsizeMax}

(***************************************************************************)
(* usize words                                                             *)
(***************************************************************************)
Bits == 0..(W - 1)
AllOnes == Bits                       \* !0usize
Not(w) == Bits \ w
Or(a, b) == a \cup b
And(a, b) == a \cap b
Shl(w, n) == {i + n : i \in w} \cap Bits
NotOne == Not({0})                    \* !1usize
\* 1usize << n for n < W.
Bit(n) == {n} \cap Bits

(***************************************************************************)
(* &str: chars(), bytes(), len(), is_ascii()                               *)
(***************************************************************************)
CharIsAscii(c) == c < 128

\* UTF-8 encoding of a code point below U+0800.
Utf8(c) == IF c < 128 THEN <<c>> ELSE <<192 + (c \div 64), 128 + (c % 64)>>

RECURSIVE StrBytes(_)
StrBytes(s) == IF s = << >> THEN << >> ELSE Utf8(Head(s)) \o StrBytes(Tail(s))

StrLen(s) == Len(StrBytes(s))         \* str::len(): bytes
CharsCount(s) == Len(s)               \* chars().count()
StrIsAscii(s) == \A i \in 1..Len(s) : CharIsAscii(s[i])

\* c as u8
AsU8(c) == c % 256

(***************************************************************************)
(* Pattern compilation                                                     *)
(***************************************************************************)
\* A limit that lets a pattern of W - 1 symbols through.
LengthTooLongStrict(n) == n > W - 1

\* The length limit of UnicodePattern::new and AsciiPattern::new.
LengthTooLong(n) == n >= W - 1

\* UnicodeMasks inserting a fresh mask for a character already in the table.
RECURSIVE UnicodeMasksOverwrite(_, _)
UnicodeMasksOverwrite(p, n) ==
  IF n = 0 THEN << >>
  ELSE LET prev == UnicodeMasksOverwrite(p, n - 1)
           c == p[n]
           i == n - 1
       IN IF c \in DOMAIN prev
          THEN [prev EXCEPT ![c] = And(AllOnes, Not(Bit(i)))]
          ELSE prev @@ (c :> And(AllOnes, Not(Bit(i))))

\* The mask loop of UnicodePattern::new over the first n characters; the
\* HashMap is a function whose domain is the set of characters seen.
RECURSIVE UnicodeMasks(_, _)
UnicodeMasks(p, n) ==
  IF n = 0 THEN << >>
  ELSE LET prev == UnicodeMasks(p, n - 1)
           c == p[n]
           i == n - 1
       IN IF c \in DOMAIN prev
          THEN [prev EXCEPT ![c] = And(prev[c], Not(Bit(i)))]
          ELSE prev @@ (c :> And(AllOnes, Not(Bit(i))))

\* AsciiMasks clearing bit i + 1 instead of bit i.
RECURSIVE AsciiMasksOffByOne(_, _)
AsciiMasksOffByOne(bytes, n) ==
  IF n = 0 THEN [b \in 0..255 |-> AllOnes]
  ELSE LET prev == AsciiMasksOffByOne(bytes, n - 1)
           b == bytes[n]
       IN [prev EXCEPT ![b] = And(prev[b], Not(Bit(n)))]

\* The mask loop of AsciiPattern::new_unchecked over the first n bytes.
RECURSIVE AsciiMasks(_, _)
AsciiMasks(bytes, n) ==
  IF n = 0 THEN [b \in 0..255 |-> AllOnes]
  ELSE LET prev == AsciiMasks(bytes, n - 1)
           b == bytes[n]
           i == n - 1
       IN [prev EXCEPT ![b] = And(prev[b], Not(Bit(i)))]

VARIABLES
  pattern,     \* the pattern string handed to the compiler
  phase,       \* "new", "pattern", "err", "panic", "iter", "done"
  kind,        \* "none", or the pattern type: "unicode", "ascii", "asciionly"
  length,      \* Pattern.length
  masks,       \* Pattern.masks
  text,        \* the text being searched
  engine,      \* "none", "find", "lev", "osa"
  k,           \* the max_distance argument
  pos,         \* items the mask iterator has produced (Enumerate's count)
  r,           \* state rows
  trans,       \* transposition rows
  out          \* matches yielded so far

vars == <<pattern, phase, kind, length, masks, text, engine, k, pos, r, trans, out>>

searchVars == <<text, engine, k, pos, r, trans, out>>

Init ==
  /\ pattern \in Patterns
  /\ phase = "new"
  /\ kind = "none"
  /\ length = 0
  /\ masks = << >>
  /\ text = << >>
  /\ engine = "none"
  /\ k = 0
  /\ pos = 0
  /\ r = << >>
  /\ trans = << >>
  /\ out = << >>

\* UnicodePattern::new.  The mask loop runs over the whole string before the
\* length is checked, so a string of more than W characters evaluates
\* 1usize << W: a panic where overflow checks are on, a wrapped shift
\* followed by the length error where they are off.
UnicodePatternNew ==
  /\ phase = "new"
  /\ LET n == CharsCount(pattern) IN
       IF n > W
       THEN /\ phase' \in {"panic", "err"}
            /\ UNCHANGED <<length, masks>>
       ELSE IF n = 0 \/ LengthTooLong(n)
       THEN /\ phase' = "err"
            /\ UNCHANGED <<length, masks>>
       ELSE /\ phase' = "pattern"
            /\ length' = n
            /\ masks' = UnicodeMasks(pattern, n)
  /\ kind' = "unicode"
  /\ UNCHANGED <<pattern, searchVars>>

\* AsciiPattern::new and new_unchecked.
AsciiPatternNew ==
  /\ phase = "new"
  /\ IF StrLen(pattern) = 0 \/ LengthTooLong(StrLen(pattern)) \/ ~StrIsAscii(pattern)
     THEN /\ phase' = "err"
          /\ UNCHANGED <<length, masks>>
     ELSE /\ phase' = "pattern"
          /\ length' = StrLen(pattern)
          /\ masks' = AsciiMasks(StrBytes(pattern), StrLen(pattern))
  /\ kind' = "ascii"
  /\ UNCHANGED <<pattern, searchVars>>

\* AsciiPattern::to_ascii_only.
ToAsciiOnly ==
  /\ phase = "pattern"
  /\ kind = "ascii"
  /\ kind' = "asciionly"
  /\ UNCHANGED <<pattern, phase, length, masks, searchVars>>

(***************************************************************************)
(* Symbol-mask sources                                                     *)
(***************************************************************************)
\* UnicodeMaskIterator::next on character c.
UnicodeMaskIteratorNext(m, c) == IF c \in DOMAIN m THEN m[c] ELSE AllOnes

\* AsciiMaskIteratorNext without the is_ascii test.
AsciiMaskIteratorNextUnchecked(m, c) == m[AsU8(c)]

\* AsciiMaskIterator::next on character c.
AsciiMaskIteratorNext(m, c) == IF ~CharIsAscii(c) THEN AllOnes ELSE m[AsU8(c)]

\* AsciiOnlyMaskIterator::next on byte b.
AsciiOnlyMaskIteratorNext(m, b) == m[b]

\* What the iterator inside the mask source walks: text.chars() for the
\* Unicode and ASCII sources, text.bytes() for the ASCII-only source.
IterItems(kd, t) == IF kd = "asciionly" THEN StrBytes(t) ELSE t

MaskIterNext(kd, m, item) ==
  CASE kd = "unicode" -> UnicodeMaskIteratorNext(m, item)
    [] kd = "ascii" -> AsciiMaskIteratorNext(m, item)
    [] kd = "asciionly" -> AsciiOnlyMaskIteratorNext(m, item)

(***************************************************************************)
(* Engines: one loop iteration of next() per mask                          *)
(***************************************************************************)
\* Rows seeded the wrong way round: row 0 with the most bits cleared.
VecSeededDescending(n) == [i \in 1..n |-> Shl(NotOne, n - i)]

\* vec![!1usize; n]
VecNotOne(n) == [i \in 1..n |-> NotOne]

\* The test of the bit below the match bit.
MatchBitClearOneEarly(rv, m) == And(rv, Bit(m - 1)) = {}

\* 0 == (rv & (1usize << pattern_length))
MatchBitClear(rv, m) == And(rv, Bit(m)) = {}

\* FindRow with the shift applied before the mask is or-ed in.
FindRowShiftFirst(row, mask) == Or(Shl(row, 1), mask)

\* BitapFind::next: self.r |= mask; self.r <<= 1.
FindRow(row, mask) == Shl(Or(row, mask), 1)

\* LevenshteinLoop taking insert and replace from the updated parent row.
RECURSIVE LevenshteinLoopUpdatedParent(_, _, _, _)
LevenshteinLoopUpdatedParent(rows, j, prev_parent, mask) ==
  IF j >= Len(rows) THEN rows
  ELSE LET current == Shl(Or(rows[j + 1], mask), 1)
           replace == Shl(rows[j], 1)
           insert == rows[j]
       IN LevenshteinLoopUpdatedParent(
            [rows EXCEPT ![j + 1] = And(And(current, insert), replace)],
            j + 1, prev_parent, mask)

\* Row j (0-based) of the rows `rows` is rows[j + 1].
\* The inner loop of BitapLevenshtein::next from row j on.
RECURSIVE LevenshteinLoop(_, _, _, _)
LevenshteinLoop(rows, j, prev_parent, mask) ==
  IF j >= Len(rows) THEN rows
  ELSE LET prev == rows[j + 1]
           current == Shl(Or(prev, mask), 1)
           replace == Shl(prev_parent, 1)
           delete == Shl(rows[j], 1)
           insert == prev_parent
       IN LevenshteinLoop(
            [rows EXCEPT ![j + 1] = And(And(current, insert), And(delete, replace))],
            j + 1, prev, mask)

\* LevenshteinRows with row 0 shifted before the mask is or-ed in.
LevenshteinRowsShiftFirst(rows, mask) ==
  LevenshteinLoop([rows EXCEPT ![1] = Or(Shl(rows[1], 1), mask)], 1, rows[1], mask)

\* The row update of BitapLevenshtein::next for one mask (rows non-empty).
LevenshteinRows(rows, mask) ==
  LevenshteinLoop([rows EXCEPT ![1] = Shl(Or(rows[1], mask), 1)], 1, rows[1], mask)

\* DamerauLoop storing the updated parent row in the transposition row.
RECURSIVE DamerauLoopTransFromUpdated(_, _, _, _)
DamerauLoopTransFromUpdated(st, j, prev_parent, mask) ==
  IF j >= Len(st.r) THEN st
  ELSE LET prev == st.r[j + 1]
           current == Shl(Or(prev, mask), 1)
           replace == Shl(prev_parent, 1)
           delete == Shl(st.r[j], 1)
           insert == prev_parent
           transpose == Shl(Or(st.trans[j], Shl(mask, 1)), 1)
       IN DamerauLoopTransFromUpdated(
            [r |-> [st.r EXCEPT ![j + 1] =
                      And(And(And(current, insert), And(delete, replace)), transpose)],
             trans |-> [st.trans EXCEPT ![j] = Or(Shl(st.r[j], 1), mask)]],
            j + 1, prev, mask)

\* DamerauLoop or-ing the transposition term into the row.
RECURSIVE DamerauLoopOrTranspose(_, _, _, _)
DamerauLoopOrTranspose(st, j, prev_parent, mask) ==
  IF j >= Len(st.r) THEN st
  ELSE LET prev == st.r[j + 1]
           current == Shl(Or(prev, mask), 1)
           replace == Shl(prev_parent, 1)
           delete == Shl(st.r[j], 1)
           insert == prev_parent
           transpose == Shl(Or(st.trans[j], Shl(mask, 1)), 1)
       IN DamerauLoopOrTranspose(
            [r |-> [st.r EXCEPT ![j + 1] =
                      Or(And(And(current, insert), And(delete, replace)), transpose)],
             trans |-> [st.trans EXCEPT ![j] = Or(Shl(prev_parent, 1), mask)]],
            j + 1, prev, mask)

\* The inner loop of BitapDamerauLevenshtein::next from row j on; st holds
\* the rows r and the transposition rows trans.
RECURSIVE DamerauLoop(_, _, _, _)
DamerauLoop(st, j, prev_parent, mask) ==
  IF j >= Len(st.r) THEN st
  ELSE LET prev == st.r[j + 1]
           current == Shl(Or(prev, mask), 1)
           replace == Shl(prev_parent, 1)
           delete == Shl(st.r[j], 1)
           insert == prev_parent
           transpose == Shl(Or(st.trans[j], Shl(mask, 1)), 1)
       IN DamerauLoop(
            [r |-> [st.r EXCEPT ![j + 1] =
                      And(And(And(current, insert), And(delete, replace)), transpose)],
             trans |-> [st.trans EXCEPT ![j] = Or(Shl(prev_parent, 1), mask)]],
            j + 1, prev, mask)

\* DamerauRows without the transposition term.
DamerauRowsNoTranspose(rows, tr, mask) == [r |-> LevenshteinRows(rows, mask), trans |-> tr]

\* The row update of BitapDamerauLevenshtein::next for one mask.
DamerauRows(rows, tr, mask) ==
  DamerauLoop([r |-> [rows EXCEPT ![1] = Shl(Or(rows[1], mask), 1)], trans |-> tr],
              1, rows[1], mask)

\* The scan reporting the last row whose match bit is clear.
LastMatchRow(rows, m) ==
  LET hits == {d \in 0..(Len(rows) - 1) : MatchBitClear(rows[d + 1], m)}
  IN IF hits = {} THEN -1 ELSE CHOOSE d \in hits : \A e \in hits : d >= e

\* The scan `for (k, rv) in self.r.iter().enumerate()`: the first row whose
\* match bit is clear, or -1 when the scan falls through.
FirstMatchRow(rows, m) ==
  LET hits == {d \in 0..(Len(rows) - 1) : MatchBitClear(rows[d + 1], m)}
  IN IF hits = {} THEN -1 ELSE CHOOSE d \in hits : \A e \in hits : d <= e

Match(d, e) == [distance |-> d, end |-> e]

(***************************************************************************)
(* Reference engine (bitap-reference/src/lib.rs)                           *)
(***************************************************************************)
Min(a, b) == IF a <= b THEN a ELSE b

pattern_length_is_valid(pattern_length) == pattern_length > 0 /\ pattern_length < W

\* The mask table of reference(): entry(c).and_modify(..).or_insert(..).
RECURSIVE ReferenceMasks(_, _)
ReferenceMasks(p, n) ==
  IF n = 0 THEN << >>
  ELSE LET prev == ReferenceMasks(p, n - 1)
           c == p[n]
           i == n - 1
       IN IF c \in DOMAIN prev
          THEN [prev EXCEPT ![c] = And(prev[c], Not(Bit(i)))]
          ELSE prev @@ (c :> Not(Bit(i)))

\* vec![!1usize; max_distance]
ReferenceTrans(max_distance) == [j \in 1..max_distance |-> NotOne]

\* Every row starting as !1usize, without the shift.
ReferenceInitRowsUnseeded(max_distance) == [j \in 1..(max_distance + 1) |-> NotOne]

\* (0..=max_distance).map(|i| !1usize << i)
ReferenceInitRows(max_distance) == [j \in 1..(max_distance + 1) |-> Shl(NotOne, j - 1)]

\* The loop `for j in 1..=max_distance` of reference() from row j on.
RECURSIVE ReferenceLoop(_, _, _, _, _)
ReferenceLoop(st, j, prev_parent, letter_mask, allow_transpositions) ==
  IF j >= Len(st.r) THEN st
  ELSE LET prev == st.r[j + 1]
           current == Shl(Or(prev, letter_mask), 1)
           replace == Shl(prev_parent, 1)
           delete == Shl(st.r[j], 1)
           insert == prev_parent
           rj == And(And(current, insert), And(delete, replace))
           transpose == Shl(Or(st.trans[j], Shl(letter_mask, 1)), 1)
       IN ReferenceLoop(
            IF allow_transpositions
            THEN [r |-> [st.r EXCEPT ![j + 1] = And(rj, transpose)],
                  trans |-> [st.trans EXCEPT ![j] = Or(Shl(prev_parent, 1), letter_mask)]]
            ELSE [r |-> [st.r EXCEPT ![j + 1] = rj], trans |-> st.trans],
            j + 1, prev, letter_mask, allow_transpositions)

\* The row update of the closure for one letter mask: row 0, then the loop.
ReferenceRows(st, letter_mask, allow_transpositions) ==
  ReferenceLoop([r |-> [st.r EXCEPT ![1] = Shl(Or(st.r[1], letter_mask), 1)],
                 trans |-> st.trans],
                1, st.r[1], letter_mask, allow_transpositions)

\* The filter_map closure of reference() folded over text from index i on.
RECURSIVE ReferenceFold(_, _, _, _, _, _, _)
ReferenceFold(ms, pattern_len, t, i, st, allow_transpositions, results) ==
  IF i >= Len(t) THEN results
  ELSE LET c == t[i + 1]
           letter_mask == IF c \in DOMAIN ms THEN ms[c] ELSE AllOnes
           st1 == ReferenceRows(st, letter_mask, allow_transpositions)
           d == FirstMatchRow(st1.r, pattern_len)
       IN ReferenceFold(ms, pattern_len, t, i + 1, st1, allow_transpositions,
                        IF d >= 0 THEN Append(results, Match(d, i)) ELSE results)

\* reference(pattern, text, max_distance, allow_transpositions, false):
\* Err("invalid pattern") or Ok(results).
reference(p, t, max_distance, allow_transpositions) ==
  LET pattern_len == CharsCount(p) IN
    IF ~pattern_length_is_valid(pattern_len)
    THEN [ok |-> FALSE, v |-> << >>]
    ELSE LET md == Min(max_distance, pattern_len)
         IN [ok |-> TRUE,
             v |-> ReferenceFold(ReferenceMasks(p, pattern_len), pattern_len, t, 0,
                                 [r |-> ReferenceInitRows(md), trans |-> ReferenceTrans(md)],
                                 allow_transpositions, << >>)]

\* lev with transpositions switched on.
ref_lev_with_transpositions(p, t, max_distance) == reference(p, t, max_distance, TRUE)

\* bitap_reference::lev
ref_lev(p, t, max_distance) == reference(p, t, max_distance, FALSE)
\* osa with transpositions switched off.
ref_osa_no_transpositions(p, t, max_distance) == reference(p, t, max_distance, FALSE)

\* bitap_reference::osa
ref_osa(p, t, max_distance) == reference(p, t, max_distance, TRUE)

(***************************************************************************)
(* Brute-force engine (bitap-reference/src/baseline.rs)                    *)
(***************************************************************************)
Min3(a, b, c) == Min(a, Min(b, c))

\* One row of the edit-distance table: row i from row i-1 (prev) and, for the
\* transposition case, row i-2 (prev2, << >> when unused).
RECURSIVE DistanceRow(_, _, _, _, _, _, _)
DistanceRow(a, i, b, prev, prev2, j, acc) ==
  IF j > Len(b) THEN acc
  ELSE LET cost == IF a[i] = b[j] THEN 0 ELSE 1
           base == Min3(prev[j + 1] + 1, acc[j] + 1, prev[j] + cost)
           v == IF /\ prev2 # << >>
                   /\ i > 1 /\ j > 1
                   /\ a[i] = b[j - 1] /\ a[i - 1] = b[j]
                THEN Min(base, prev2[j - 1] + 1)
                ELSE base
       IN DistanceRow(a, i, b, prev, prev2, j + 1, Append(acc, v))

RECURSIVE DistanceRows(_, _, _, _, _, _)
DistanceRows(a, b, i, prev, prev2, osa_rule) ==
  IF i > Len(a) THEN prev[Len(b) + 1]
  ELSE DistanceRows(a, b, i + 1,
                    DistanceRow(a, i, b, prev, IF osa_rule THEN prev2 ELSE << >>, 1, <<i>>),
                    prev, osa_rule)

\* strsim::levenshtein
levenshtein(a, b) ==
  DistanceRows(a, b, 1, [j \in 1..(Len(b) + 1) |-> j - 1], << >>, FALSE)

\* strsim::osa_distance
osa_distance(a, b) ==
  DistanceRows(a, b, 1, [j \in 1..(Len(b) + 1) |-> j - 1], << >>, TRUE)

\* Largest element of a set of naturals, 0 for the empty set.
MaxOf(S) == IF S = {} THEN 0 ELSE CHOOSE x \in S : \A y \in S : y <= x

\* Cell (i, j) of the unrestricted Damerau-Levenshtein table: tab holds rows
\* 0..i-1 (tab[x + 1][y + 1] is cell (x, y)) and row holds cells (i, 0..j-1).
\* A transposition pairs a[i] with its last earlier occurrence in b and b[j]
\* with its last earlier occurrence in a.
DamerauCell(a, b, tab, row, i, j) ==
  LET cost == IF a[i] = b[j] THEN 0 ELSE 1
      base == Min3(tab[i][j] + cost, row[j] + 1, tab[i][j + 1] + 1)
      i1 == MaxOf({x \in 1..(i - 1) : a[x] = b[j]})
      j1 == MaxOf({y \in 1..(j - 1) : b[y] = a[i]})
  IN IF i1 > 0 /\ j1 > 0
     THEN Min(base, tab[i1][j1] + (i - i1 - 1) + 1 + (j - j1 - 1))
     ELSE base

RECURSIVE DamerauRow(_, _, _, _, _, _)
DamerauRow(a, b, tab, row, i, j) ==
  IF j > Len(b) THEN row
  ELSE DamerauRow(a, b, tab, Append(row, DamerauCell(a, b, tab, row, i, j)), i, j + 1)

RECURSIVE DamerauTable(_, _, _, _)
DamerauTable(a, b, tab, i) ==
  IF i > Len(a) THEN tab[Len(a) + 1][Len(b) + 1]
  ELSE DamerauTable(a, b, Append(tab, DamerauRow(a, b, tab, <<i>>, i, 1)), i + 1)

\* strsim::damerau_levenshtein
damerau_levenshtein(a, b) ==
  DamerauTable(a, b, <<[j \in 1..(Len(b) + 1) |-> j - 1]>>, 1)

\* DistanceFn with the DamerauLevenshtein arm calling osa_distance.
DistanceFnOsaForDamerau(fn, a, b) ==
  CASE fn = "Levenshtein" -> levenshtein(a, b)
    [] fn = "DamerauLevenshtein" -> osa_distance(a, b)
    [] fn = "OptimalStringAlignment" -> osa_distance(a, b)

DistanceFn(fn, a, b) ==
  CASE fn = "Levenshtein" -> levenshtein(a, b)
    [] fn = "DamerauLevenshtein" -> damerau_levenshtein(a, b)
    [] fn = "OptimalStringAlignment" -> osa_distance(a, b)

\* The inner loop `for j in start..=i` of baseline(), with its early break.
RECURSIVE BaselineBest(_, _, _, _, _, _)
BaselineBest(p, t, i, j, best_distance, fn) ==
  IF j > i \/ best_distance = 0 THEN best_distance
  ELSE LET distance == DistanceFn(fn, p, SubSeq(t, j + 1, i + 1))
       IN BaselineBest(p, t, i, j + 1, Min(distance, best_distance), fn)

\* The outer loop `for i in 0..text_chars.len()` of baseline().
RECURSIVE BaselineFold(_, _, _, _, _, _)
BaselineFold(p, t, max_distance, i, fn, results) ==
  IF i >= Len(t) THEN results
  ELSE LET max_diff == max_distance + CharsCount(p)
           start == IF i > max_diff THEN i - max_diff ELSE 0
           best_distance == BaselineBest(p, t, i, start, max_distance + 1, fn)
       IN BaselineFold(p, t, max_distance, i + 1, fn,
                       IF best_distance <= max_distance
                       THEN Append(results, Match(best_distance, i))
                       ELSE results)

baseline(p, t, max_distance, fn) ==
  LET pattern_len == CharsCount(p) IN
    IF ~pattern_length_is_valid(pattern_len)
    THEN [ok |-> FALSE, v |-> << >>]
    ELSE [ok |-> TRUE,
          v |-> BaselineFold(p, t, Min(max_distance, pattern_len), 0, fn, << >>)]

\* baseline::lev and ::osa
baseline_lev(p, t, kk) == baseline(p, t, kk, "Levenshtein")
baseline_osa(p, t, kk) == baseline(p, t, kk, "OptimalStringAlignment")
\* baseline::damerau
baseline_damerau(p, t, kk) == baseline(p, t, kk, "DamerauLevenshtein")

(***************************************************************************)
(* The find wrappers of bitap-reference (lib.rs and baseline.rs)           *)
(***************************************************************************)
\* `m.end - offset` goes below zero for some match of v.
FindOffsetUnderflows(v, offset) == \E i \in 1..Len(v) : v[i].end < offset

\* v.iter().map(|m| m.end - offset), the subtraction taken in the word.
FindStarts(v, offset) == [i \in 1..Len(v) |-> (v[i].end - offset) % Pow2(W)]

\* The closure both find wrappers map over an Ok result.
FindOfResult(p, res) ==
  IF res.ok
  THEN [ok |-> TRUE,
        underflow |-> FindOffsetUnderflows(res.v, CharsCount(p) - 1),
        v |-> FindStarts(res.v, CharsCount(p) - 1)]
  ELSE [ok |-> FALSE, underflow |-> FALSE, v |-> << >>]

\* bitap_reference::find and bitap_reference::baseline::find
ref_find(p, t) == FindOfResult(p, reference(p, t, 0, FALSE))
baseline_find(p, t) == FindOfResult(p, baseline(p, t, 0, "Levenshtein"))

(***************************************************************************)
(* Reference implementation inside the main crate (src/reference.rs)       *)
(***************************************************************************)
\* The usize holding the number n.
WordOf(n) == {i \in Bits : (n \div Pow2(i)) % 2 = 1}

\* The HashMap<char, usize> built by bitap_reference's mask loop.
RECURSIVE BitapReferenceMasks(_, _)
BitapReferenceMasks(p, n) ==
  IF n = 0 THEN << >>
  ELSE LET before == BitapReferenceMasks(p, n - 1)
           c == p[n]
       IN IF c \in DOMAIN before
          THEN [before EXCEPT ![c] = And(@, Not(Bit(n - 1)))]
          ELSE [x \in DOMAIN before \cup {c} |->
                  IF x = c THEN And(AllOnes, Not(Bit(n - 1))) ELSE before[x]]

\* `let mut trans = vec![!1usize, max_edit_distance];` is the two-element
\* vector holding !1 and the number max_edit_distance.
BitapReferenceTrans(max_edit_distance) == <<NotOne, WordOf(max_edit_distance)>>

\* The `for j in 1..=max_edit_distance` loop of the filter_map closure.
\* trans[j - 1] is read and written for every j, whatever
\* allow_transpositions says; an index past the vector panics.
RECURSIVE BitapReferenceLoop(_, _, _, _, _, _)
BitapReferenceLoop(st, j, prev_parent, letter_mask, allow_transpositions, max_edit_distance) ==
  IF j > max_edit_distance \/ st.panic THEN st
  ELSE IF j > Len(st.trans) THEN [st EXCEPT !.panic = TRUE]
  ELSE
    LET prev == st.r[j + 1]
        current == Shl(Or(prev, letter_mask), 1)
        replace == Shl(prev_parent, 1)
        delete == Shl(st.r[j], 1)
        insert == prev_parent
        transpose == Shl(Or(st.trans[j], Shl(letter_mask, 1)), 1)
        plain == And(And(current, insert), And(delete, replace))
        rj == IF allow_transpositions THEN And(plain, transpose) ELSE plain
    IN BitapReferenceLoop([r |-> [st.r EXCEPT ![j + 1] = rj],
                           trans |-> [st.trans EXCEPT ![j] = Or(Shl(prev_parent, 1), letter_mask)],
                           panic |-> FALSE],
                          j + 1, prev, letter_mask, allow_transpositions, max_edit_distance)

\* The closure applied to text.chars().enumerate() from index i on.
RECURSIVE BitapReferenceFold(_, _, _, _, _, _, _, _)
BitapReferenceFold(ms, m, t, i, st, allow_transpositions, max_edit_distance, results) ==
  IF i >= Len(t) THEN [status |-> "ok", v |-> results]
  ELSE IF Len(st.r) = 0 THEN [status |-> "panic", v |-> results]
  ELSE
    LET letter_mask == UnicodeMaskIteratorNext(ms, t[i + 1])
        r0 == Shl(Or(st.r[1], letter_mask), 1)
        nst == BitapReferenceLoop([st EXCEPT !.r[1] = r0], 1, st.r[1], letter_mask,
                                  allow_transpositions, max_edit_distance)
        d == FirstMatchRow(nst.r, m)
    IN IF nst.panic THEN [status |-> "panic", v |-> results]
       ELSE BitapReferenceFold(ms, m, t, i + 1, nst, allow_transpositions, max_edit_distance,
                               IF d >= 0 THEN Append(results, Match(d, i)) ELSE results)

\* bitap_reference(text, pattern, max_edit_distance, allow_transpositions),
\* collected.  wraps tells whether max_edit_distance + 1 wraps to 0 at
\* usize::MAX (overflow checks off) or panics (overflow checks on).
bitap_reference(t, p, max_edit_distance, allow_transpositions, wraps) ==
  LET m == CharsCount(p) IN
    IF m = 0 \/ m > W - 1 THEN [status |-> "panic", v |-> << >>]
    ELSE IF max_edit_distance = UsizeMax /\ ~wraps THEN [status |-> "panic", v |-> << >>]
    ELSE BitapReferenceFold(BitapReferenceMasks(p, m), m, t, 0,
                            [r |-> VecNotOne((max_edit_distance + 1) % Pow2(W)),
                             trans |-> BitapReferenceTrans(max_edit_distance),
                             panic |-> FALSE],
                            allow_transpositions, max_edit_distance, << >>)

\* reference::levenshtein and reference::damerau_levenshtein
reference_levenshtein(p, t, kk, wraps) == bitap_reference(t, p, kk, FALSE, wraps)
reference_damerau_levenshtein(p, t, kk, wraps) == bitap_reference(t, p, kk, TRUE, wraps)

(***************************************************************************)
(* Whole searches as functions of the mask sequence (collect())            *)
(***************************************************************************)
\* The masks a source yields for text t, in order.
MaskSeq(kd, m, t) ==
  [i \in 1..Len(IterItems(kd, t)) |-> MaskIterNext(kd, m, IterItems(kd, t)[i])]

\* BitapFind::new(ms, m) run to exhaustion.
RECURSIVE BitapFindRun(_, _, _, _, _)
BitapFindRun(ms, m, i, row, acc) ==
  IF i >= Len(ms) THEN acc
  ELSE LET nr == FindRow(row, ms[i + 1])
       IN BitapFindRun(ms, m, i + 1, nr,
                       IF MatchBitClear(nr, m) THEN Append(acc, i + 1 - m) ELSE acc)

BitapFind(ms, m) == BitapFindRun(ms, m, 0, NotOne, << >>)

\* BitapLevenshtein::new(ms, m, max_distance) run to exhaustion.
RECURSIVE BitapLevenshteinRun(_, _, _, _, _)
BitapLevenshteinRun(ms, m, i, rows, acc) ==
  IF i >= Len(ms) THEN acc
  ELSE LET nr == LevenshteinRows(rows, ms[i + 1])
           d == FirstMatchRow(nr, m)
       IN BitapLevenshteinRun(ms, m, i + 1, nr,
                              IF d >= 0 THEN Append(acc, Match(d, i)) ELSE acc)

BitapLevenshtein(ms, m, max_distance) ==
  BitapLevenshteinRun(ms, m, 0, VecNotOne(max_distance + 1), << >>)

\* BitapDamerauLevenshtein::new(ms, m, max_distance) run to exhaustion.
RECURSIVE BitapDamerauLevenshteinRun(_, _, _, _, _)
BitapDamerauLevenshteinRun(ms, m, i, st, acc) ==
  IF i >= Len(ms) THEN acc
  ELSE LET ns == DamerauRows(st.r, st.trans, ms[i + 1])
           d == FirstMatchRow(ns.r, m)
       IN BitapDamerauLevenshteinRun(ms, m, i + 1, ns,
                                     IF d >= 0 THEN Append(acc, Match(d, i)) ELSE acc)

BitapDamerauLevenshtein(ms, m, max_distance) ==
  BitapDamerauLevenshteinRun(ms, m, 0,
      [r |-> VecNotOne(max_distance + 1), trans |-> VecNotOne(max_distance)], << >>)

\* Searcher::find_iter -> BitapFind::new.
FindIter ==
  /\ phase = "pattern"
  /\ \E t \in Texts : text' = t
  /\ phase' = "iter"
  /\ engine' = "find"
  /\ k' = 0
  /\ pos' = 0
  /\ r' = <<NotOne>>
  /\ trans' = << >>
  /\ out' = << >>
  /\ UNCHANGED <<pattern, kind, length, masks>>

\* Searcher::find_levenshtein_iter -> BitapLevenshtein::new.  max_distance + 1
\* overflows for usize::MAX: a panic with overflow checks, 0 rows without.
FindLevenshteinIter ==
  /\ phase = "pattern"
  /\ \E t \in Texts : text' = t
  /\ \E kk \in Distances :
       /\ k' = kk
       /\ IF kk = UsizeMax
          THEN \/ /\ phase' = "panic"
                  /\ r' = << >>
               \/ /\ phase' = "iter"
                  /\ r' = VecNotOne(0)
          ELSE /\ phase' = "iter"
               /\ r' = VecNotOne(kk + 1)
  /\ engine' = "lev"
  /\ pos' = 0
  /\ trans' = << >>
  /\ out' = << >>
  /\ UNCHANGED <<pattern, kind, length, masks>>

\* Searcher::find_damerau_levenshtein_iter -> BitapDamerauLevenshtein::new.
\* For usize::MAX either max_distance + 1 panics or, wrapped, the allocation
\* of usize::MAX transposition rows panics with a capacity overflow.
FindDamerauLevenshteinIter ==
  /\ phase = "pattern"
  /\ \E t \in Texts : text' = t
  /\ \E kk \in Distances :
       /\ k' = kk
       /\ IF kk = UsizeMax
          THEN /\ phase' = "panic"
               /\ r' = << >>
               /\ trans' = << >>
          ELSE /\ phase' = "iter"
               /\ r' = VecNotOne(kk + 1)
               /\ trans' = VecNotOne(kk)
  /\ engine' = "osa"
  /\ pos' = 0
  /\ out' = << >>
  /\ UNCHANGED <<pattern, kind, length, masks>>

\* One iteration of the loop of BitapFind::next, or its exit with None.
BitapFindNext ==
  /\ phase = "iter"
  /\ engine = "find"
  /\ LET items == IterItems(kind, text) IN
       IF pos >= Len(items)
       THEN /\ phase' = "done"
            /\ UNCHANGED <<pos, r, out>>
       ELSE LET i == pos
                mask == MaskIterNext(kind, masks, items[pos + 1])
                row == FindRow(r[1], mask)
            IN /\ pos' = pos + 1
               /\ r' = <<row>>
               /\ IF MatchBitClear(row, length)
                  THEN IF i + 1 >= length
                       THEN /\ out' = Append(out, i + 1 - length)
                            /\ phase' = phase
                       ELSE \* i + 1 - pattern_length below zero
                            \/ /\ phase' = "panic"
                               /\ out' = out
                            \/ /\ phase' = phase
                               /\ out' = Append(out, i + 1 - length + Pow2(W))
                  ELSE /\ out' = out
                       /\ phase' = phase
  /\ UNCHANGED <<pattern, kind, length, masks, text, engine, k, trans>>

\* One iteration of the loop of BitapLevenshtein::next, or its exit.
BitapLevenshteinNext ==
  /\ phase = "iter"
  /\ engine = "lev"
  /\ LET items == IterItems(kind, text) IN
       IF pos >= Len(items)
       THEN /\ phase' = "done"
            /\ UNCHANGED <<pos, r, out>>
       ELSE IF Len(r) = 0
       THEN \* self.r[0] out of bounds
            /\ phase' = "panic"
            /\ pos' = pos + 1
            /\ UNCHANGED <<r, out>>
       ELSE LET i == pos
                mask == MaskIterNext(kind, masks, items[pos + 1])
                rows == LevenshteinRows(r, mask)
                d == FirstMatchRow(rows, length)
            IN /\ pos' = pos + 1
               /\ r' = rows
               /\ out' = IF d >= 0 THEN Append(out, Match(d, i)) ELSE out
               /\ phase' = phase
  /\ UNCHANGED <<pattern, kind, length, masks, text, engine, k, trans>>

\* One iteration of the loop of BitapDamerauLevenshtein::next, or its exit.
BitapDamerauLevenshteinNext ==
  /\ phase = "iter"
  /\ engine = "osa"
  /\ LET items == IterItems(kind, text) IN
       IF pos >= Len(items)
       THEN /\ phase' = "done"
            /\ UNCHANGED <<pos, r, trans, out>>
       ELSE LET i == pos
                mask == MaskIterNext(kind, masks, items[pos + 1])
                st == DamerauRows(r, trans, mask)
                d == FirstMatchRow(st.r, length)
            IN /\ pos' = pos + 1
               /\ r' = st.r
               /\ trans' = st.trans
               /\ out' = IF d >= 0 THEN Append(out, Match(d, i)) ELSE out
               /\ phase' = phase
  /\ UNCHANGED <<pattern, kind, length, masks, text, engine, k>>

(***************************************************************************)
(* Pattern::lev / ::osa and the fixed-distance lev_static / osa_static     *)
(* called by src/test.rs (general engine and specializations for k = 1, 2) *)
(***************************************************************************)
\* Pattern::new: no Pattern for a symbol count of 0 or of W - 1 and more.
Pattern_new_ok(p) == CharsCount(p) > 0 /\ CharsCount(p) < W - 1

\* The mask sequence of text t under the pattern compiled from p.
PatternMaskSeq(p, t) == MaskSeq("unicode", UnicodeMasks(p, CharsCount(p)), t)

\* Row d starts as (NOT 1) << d.
PatternInitRows(kk) == [j \in 1..(kk + 1) |-> Shl(NotOne, j - 1)]

\* Rows d = j .. k of the general engine for one mask; osa folds the
\* transposition mask in.
RECURSIVE PatternRowsLoop(_, _, _, _, _)
PatternRowsLoop(st, j, prev_row_before_update, m, osa) ==
  IF j >= Len(st.r) THEN st
  ELSE
    LET before == st.r[j + 1]
        current == Shl(Or(before, m), 1)
        replace == Shl(prev_row_before_update, 1)
        delete == Shl(st.r[j], 1)
        insert == prev_row_before_update
        lev_row == And(And(current, insert), And(delete, replace))
        row == IF osa THEN And(lev_row, Shl(Or(st.t[j], Shl(m, 1)), 1)) ELSE lev_row
    IN PatternRowsLoop([r |-> [st.r EXCEPT ![j + 1] = row],
                        t |-> IF osa
                              THEN [st.t EXCEPT ![j] = Or(Shl(prev_row_before_update, 1), m)]
                              ELSE st.t],
                       j + 1, before, m, osa)

RECURSIVE PatternRun(_, _, _, _, _, _)
PatternRun(ms, m, i, st, osa, acc) ==
  IF i >= Len(ms) THEN acc
  ELSE LET r0 == Shl(Or(st.r[1], ms[i + 1]), 1)
           nst == PatternRowsLoop([st EXCEPT !.r[1] = r0], 1, st.r[1], ms[i + 1], osa)
           d == FirstMatchRow(nst.r, m)
       IN PatternRun(ms, m, i + 1, nst, osa,
                     IF d >= 0 THEN Append(acc, Match(d, i)) ELSE acc)

\* The general engine with max_distance clamped to the pattern length.
PatternSearch(p, t, kk, osa) ==
  LET md == Min(kk, CharsCount(p))
  IN PatternRun(PatternMaskSeq(p, t), CharsCount(p), 0,
                [r |-> PatternInitRows(md), t |-> VecNotOne(md)], osa, << >>)

\* Pattern::lev(text, k) and Pattern::osa(text, k), collected.
Pattern_lev(p, t, kk) == PatternSearch(p, t, kk, FALSE)
Pattern_osa(p, t, kk) == PatternSearch(p, t, kk, TRUE)

\* One symbol of the fixed-distance engine: the rows d = 0, 1, 2 and the
\* transposition rows are named fields, updated without a loop.  With
\* StaticMaxDistance::One row 2 is not used.
StaticStep(st, m, two, osa) ==
  LET r0 == Shl(Or(st.r0, m), 1)
      lev1 == And(And(Shl(Or(st.r1, m), 1), st.r0), And(Shl(r0, 1), Shl(st.r0, 1)))
      r1 == IF osa THEN And(lev1, Shl(Or(st.t0, Shl(m, 1)), 1)) ELSE lev1
      lev2 == And(And(Shl(Or(st.r2, m), 1), st.r1), And(Shl(r1, 1), Shl(st.r1, 1)))
      r2 == IF osa THEN And(lev2, Shl(Or(st.t1, Shl(m, 1)), 1)) ELSE lev2
  IN [r0 |-> r0, r1 |-> r1, r2 |-> IF two THEN r2 ELSE st.r2,
      t0 |-> Or(Shl(st.r0, 1), m),
      t1 |-> IF two THEN Or(Shl(st.r1, 1), m) ELSE st.t1]

\* The rows scanned in ascending distance.
StaticMatchRow(st, m, two) ==
  IF MatchBitClear(st.r0, m) THEN 0
  ELSE IF MatchBitClear(st.r1, m) THEN 1
  ELSE IF two /\ MatchBitClear(st.r2, m) THEN 2
  ELSE -1

RECURSIVE StaticRun(_, _, _, _, _, _, _)
StaticRun(ms, m, i, st, two, osa, acc) ==
  IF i >= Len(ms) THEN acc
  ELSE LET nst == StaticStep(st, ms[i + 1], two, osa)
           d == StaticMatchRow(nst, m, two)
       IN StaticRun(ms, m, i + 1, nst, two, osa,
                    IF d >= 0 THEN Append(acc, Match(d, i)) ELSE acc)

StaticSearch(p, t, d, osa) ==
  StaticRun(PatternMaskSeq(p, t), CharsCount(p), 0,
            [r0 |-> NotOne, r1 |-> Shl(NotOne, 1), r2 |-> Shl(NotOne, 2),
             t0 |-> NotOne, t1 |-> NotOne],
            d = 2, osa, << >>)

\* Pattern::lev_static(text, d) and Pattern::osa_static(text, d), collected;
\* d is 1 for StaticMaxDistance::One and 2 for StaticMaxDistance::Two.
lev_static(p, t, d) == StaticSearch(p, t, d, FALSE)
osa_static(p, t, d) == StaticSearch(p, t, d, TRUE)

(***************************************************************************)
(* Whole-call functions: one call of a free function on (pattern, text, k) *)
(***************************************************************************)
\* Strings the bit-parallel reference rejects or just accepts: W - 2 .. W + 1
\* equal symbols.
LongPatterns == {[i \in 1..n |-> 97] : n \in (W - 2)..(W + 1)}

CallPatterns ==
  StringsUpTo(AsciiAlphabet, MaxText) \cup StringsUpTo(Alphabet, MaxMixed)
    \cup ScenarioPatterns \cup LongPatterns

CallTexts ==
  StringsUpTo(AsciiAlphabet, MaxText - 1) \cup StringsUpTo(Alphabet, MaxMixed)
    \cup ScenarioTexts

\* The arguments of one call, before the call.
InitCall ==
  /\ pattern \in CallPatterns
  /\ text \in CallTexts
  /\ k \in Distances
  /\ phase = "call"
  /\ kind = "call"
  /\ length = 0
  /\ masks = << >>
  /\ engine = "none"
  /\ pos = 0
  /\ r = << >>
  /\ trans = << >>
  /\ out = << >>

\* The call `name` returns: Ok(v) or Err("invalid pattern").
Returns(name, res) ==
  /\ phase = "call"
  /\ engine' = name
  /\ out' = res.v
  /\ phase' = IF res.ok THEN "done" ELSE "err"
  /\ UNCHANGED <<pattern, kind, length, masks, text, k, pos, r, trans>>

\* The call `name` of a panicking function returns its collected matches or
\* panics.
ReturnsOrPanics(name, res) ==
  /\ phase = "call"
  /\ engine' = name
  /\ out' = res.v
  /\ phase' = IF res.status = "ok" THEN "done" ELSE "panic"
  /\ UNCHANGED <<pattern, kind, length, masks, text, k, pos, r, trans>>

\* bitap_reference::lev / ::osa
CallRefLev == Returns("bitap_reference::lev", ref_lev(pattern, text, k))
CallRefOsa == Returns("bitap_reference::osa", ref_osa(pattern, text, k))

\* bitap_reference::baseline::lev / ::osa / ::damerau
CallBaselineLev == Returns("baseline::lev", baseline_lev(pattern, text, k))
CallBaselineOsa == Returns("baseline::osa", baseline_osa(pattern, text, k))
CallBaselineDamerau == Returns("baseline::damerau", baseline_damerau(pattern, text, k))

\* A find wrapper returns: Err, the starts, or, where a subtraction goes
\* below zero, a panic (overflow checks on) or the wrapped starts (off).
ReturnsStarts(name, res) ==
  /\ phase = "call"
  /\ k = 0
  /\ engine' = name
  /\ \/ /\ res.underflow
        /\ phase' = "panic"
        /\ out' = << >>
     \/ /\ out' = res.v
        /\ phase' = IF res.ok THEN "done" ELSE "err"
  /\ UNCHANGED <<pattern, kind, length, masks, text, k, pos, r, trans>>

CallRefFind == ReturnsStarts("bitap_reference::find", ref_find(pattern, text))
CallBaselineFind == ReturnsStarts("baseline::find", baseline_find(pattern, text))

\* bitap::reference::levenshtein / ::damerau_levenshtein, collected.  At
\* usize::MAX the build decides whether max_edit_distance + 1 wraps.
CallReferenceLevenshtein ==
  \E wraps \in BOOLEAN :
    ReturnsOrPanics("reference::levenshtein", reference_levenshtein(pattern, text, k, wraps))
CallReferenceDamerauLevenshtein ==
  \E wraps \in BOOLEAN :
    ReturnsOrPanics("reference::damerau_levenshtein",
                    reference_damerau_levenshtein(pattern, text, k, wraps))

\* Pattern::new(p).unwrap() followed by one search, collected: the unwrap
\* fails when no Pattern is produced.
PatternCall(name, v) ==
  Returns(name, [ok |-> Pattern_new_ok(pattern),
                 v |-> IF Pattern_new_ok(pattern) THEN v ELSE << >>])

CallPatternLev == PatternCall("Pattern::lev", Pattern_lev(pattern, text, k))
CallPatternOsa == PatternCall("Pattern::osa", Pattern_osa(pattern, text, k))

\* try_static_max_distance: only k = 1 and k = 2 have a StaticMaxDistance.
CallLevStatic ==
  /\ k \in {1, 2}
  /\ PatternCall("Pattern::lev_static", lev_static(pattern, text, k))
CallOsaStatic ==
  /\ k \in {1, 2}
  /\ PatternCall("Pattern::osa_static", osa_static(pattern, text, k))

NextCall ==
  \/ CallRefFind
  \/ CallBaselineFind
  \/ CallPatternLev
  \/ CallPatternOsa
  \/ CallLevStatic
  \/ CallOsaStatic
  \/ CallRefLev
  \/ CallRefOsa
  \/ CallBaselineLev
  \/ CallBaselineOsa
  \/ CallBaselineDamerau
  \/ CallReferenceLevenshtein
  \/ CallReferenceDamerauLevenshtein

Next ==
  \/ UnicodePatternNew
  \/ AsciiPatternNew
  \/ ToAsciiOnly
  \/ FindIter
  \/ FindLevenshteinIter
  \/ FindDamerauLevenshteinIter
  \/ BitapFindNext
  \/ BitapLevenshteinNext
  \/ BitapDamerauLevenshteinNext

(***************************************************************************)
(* Properties                                                              *)
(***************************************************************************)
Searching == phase \in {"iter", "done"}
Exhausted == phase = "done"

\* AsciiOnlyPattern is documented for ASCII text only; the other two pattern
\* types take any text.
TextInContract == kind # "asciionly" \/ StrIsAscii(text)

IsAscending(seq) == \A i \in 1..(Len(seq) - 1) : seq[i] < seq[i + 1]
Range(seq) == {seq[i] : i \in 1..Len(seq)}
Ends(ms) == [i \in 1..Len(ms) |-> ms[i].end]

\* Start indices s with t[s..s+m) = p.
OccurrenceSet(p, t) ==
  {s \in 0..(Len(t) - Len(p)) : SubSeq(t, s + 1, s + Len(p)) = p}

\* C1: an exhausted exact search has yielded, in ascending order, exactly the
\* start indices of the literal occurrences of the pattern in the text.
C1_ExactEqualsSubstringScan ==
  (Exhausted /\ engine = "find" /\ TextInContract)
    => /\ IsAscending(out)
       /\ Range(out) = OccurrenceSet(pattern, text)

\* C1 witness: an exhausted exact search that found two overlapping occurrences.
C1_Witness ==
  /\ Exhausted /\ engine = "find" /\ TextInContract
  /\ Len(out) >= 2
  /\ out[2] - out[1] < length

\* C2: an exhausted Levenshtein search has yielded exactly the matches of the
\* brute-force baseline::lev for the same pattern, text and max distance.
C2_LevEqualsBaseline ==
  (Exhausted /\ engine = "lev" /\ TextInContract)
    => out = baseline_lev(pattern, text, k).v

\* C3: an exhausted OSA search has yielded exactly the matches of the reference
\* engine's osa for the same pattern, text and max distance.
C3_OsaEqualsReference ==
  (Exhausted /\ engine = "osa" /\ TextInContract)
    => out = ref_osa(pattern, text, k).v

\* C4: UnicodePattern::new returns an error exactly when the pattern has 0 or
\* at least W-1 symbols.
C4_CompileErrIffBadLength ==
  (kind = "unicode")
    => ((phase = "err") <=> (CharsCount(pattern) = 0 \/ CharsCount(pattern) >= W - 1))

\* C5: once a pattern is compiled no search operation panics, whatever the
\* text and the max distance, and the empty text yields no match.
C5_SearchIsTotal ==
  (engine # "none")
    => /\ phase # "panic"
       /\ (text = << >> => out = << >>)

\* C6: a Levenshtein or OSA search with max distance above the pattern length
\* runs like the search with max distance equal to the pattern length.
C6_ClampToPatternLength ==
  (engine \in {"lev", "osa"} /\ k > length /\ TextInContract
     /\ phase \in {"done", "panic"})
    => /\ phase = "done"
       /\ out = IF engine = "lev"
                THEN BitapLevenshtein(MaskSeq(kind, masks, text), length, length)
                ELSE BitapDamerauLevenshtein(MaskSeq(kind, masks, text), length, length)

\* The distance-0 matches of ms mapped to end - m + 1.
RECURSIVE ZeroStarts(_, _)
ZeroStarts(ms, m) ==
  IF ms = << >> THEN << >>
  ELSE IF Head(ms).distance = 0
       THEN <<Head(ms).end - m + 1>> \o ZeroStarts(Tail(ms), m)
       ELSE ZeroStarts(Tail(ms), m)

\* C7: the exact-match start positions are the values end - |p| + 1 of the
\* matches of the Levenshtein search with max distance 0, in the same order.
C7_FindIsLevZero ==
  (Exhausted /\ engine = "find")
    => out = ZeroStarts(BitapLevenshtein(MaskSeq(kind, masks, text), length, 0), length)

\* C7 witness: an exhausted exact search that found something.
C7_Witness == Exhausted /\ engine = "find" /\ out # << >>

\* Smallest distance between p and a substring of t ending at index e, under
\* Levenshtein or OSA.
MinDistanceAt(p, t, e, fn) ==
  LET ds == {DistanceFn(fn, p, SubSeq(t, j + 1, e + 1)) : j \in 0..e}
  IN CHOOSE d \in ds : \A x \in ds : d <= x

EngineDistanceFn == IF engine = "lev" THEN "Levenshtein" ELSE "OptimalStringAlignment"

\* C8: Levenshtein and OSA searches report at most one match per position, in
\* increasing order of end, each carrying the smallest row index whose match
\* bit is clear, which is the minimum distance achievable at that position.
C8_OneMinimalMatchPerPosition ==
  (Searching /\ engine \in {"lev", "osa"} /\ TextInContract)
    => /\ IsAscending(Ends(out))
       /\ (out # << >> /\ out[Len(out)].end = pos - 1)
            => out[Len(out)].distance = FirstMatchRow(r, length)
       /\ \A i \in 1..Len(out) :
            out[i].distance = MinDistanceAt(pattern, text, out[i].end, EngineDistanceFn)

\* The row half of C8 alone: one match per position, carrying the first row
\* whose match bit is clear after that symbol's update.
RowScanReportsFirstClearRow ==
  (Searching /\ engine \in {"lev", "osa"})
    => /\ IsAscending(Ends(out))
       /\ (out # << >> /\ out[Len(out)].end = pos - 1)
            => out[Len(out)].distance = FirstMatchRow(r, length)
       /\ (pos > 0 /\ Len(r) > 0 /\ FirstMatchRow(r, length) >= 0)
            => (out # << >> /\ out[Len(out)] = Match(FirstMatchRow(r, length), pos - 1))

\* The three mask sources compiled from pattern p, applied to text t.
UnicodeSource(p, t) == MaskSeq("unicode", UnicodeMasks(p, CharsCount(p)), t)
AsciiSource(p, t) == MaskSeq("ascii", AsciiMasks(StrBytes(p), StrLen(p)), t)
AsciiOnlySource(p, t) == MaskSeq("asciionly", AsciiMasks(StrBytes(p), StrLen(p)), t)

\* C9: for an ASCII pattern and ASCII text the mask source in use yields one
\* mask per text symbol and the same masks as each of the three sources.
C9_SourcesAgreeOnAscii ==
  (Searching /\ StrIsAscii(pattern) /\ StrIsAscii(text))
    => LET cur == MaskSeq(kind, masks, text) IN
         /\ Len(cur) = CharsCount(text)
         /\ cur = UnicodeSource(pattern, text)
         /\ cur = AsciiSource(pattern, text)
         /\ cur = AsciiOnlySource(pattern, text)

\* C9 witness: an ASCII-only search over ASCII text with both pattern symbols
\* and a symbol absent from the pattern.
C9_Witness ==
  /\ Searching /\ kind = "asciionly" /\ StrIsAscii(text)
  /\ \E i \in 1..Len(text) : \E j \in 1..Len(pattern) : text[i] = pattern[j]
  /\ \E i \in 1..Len(text) : \A j \in 1..Len(pattern) : text[i] # pattern[j]

\* The matches an engine yields from mask sequence ms.
EngineRun(e, ms, m, kk) ==
  CASE e = "find" -> BitapFind(ms, m)
    [] e = "lev" -> BitapLevenshtein(ms, m, kk)
    [] e = "osa" -> BitapDamerauLevenshtein(ms, m, kk)

\* C10: for an ASCII pattern and any text the ASCII source yields one mask
\* per code point, all-ones for each non-ASCII symbol, hence the masks and the
\* matches of the Unicode source compiled from the same pattern.
C10_AsciiSourceEqualsUnicode ==
  (Searching /\ kind = "ascii")
    => LET cur == MaskSeq(kind, masks, text) IN
         /\ Len(cur) = CharsCount(text)
         /\ \A i \in 1..Len(text) : ~CharIsAscii(text[i]) => cur[i] = AllOnes
         /\ cur = UnicodeSource(pattern, text)
         /\ (Exhausted /\ k # UsizeMax)
              => out = EngineRun(engine, UnicodeSource(pattern, text), CharsCount(pattern), k)

\* C10 witness: an exhausted ASCII-pattern search over text with a non-ASCII
\* symbol that still found a match.
C10_Witness ==
  /\ Exhausted /\ kind = "ascii"
  /\ ~StrIsAscii(text)
  /\ out # << >>

\* The mask the compiled table holds for symbol c: a HashMap lookup that
\* defaults to all-ones (Unicode), or the array entry of byte c (ASCII).
TableMask(kd, m, c) == IF kd = "unicode" THEN UnicodeMaskIteratorNext(m, c) ELSE m[c]

TableSymbols(kd) == IF kd = "unicode" THEN 0..400 ELSE 0..255

\* C11: in a freshly compiled pattern of length m, bit i of the mask of symbol
\* c is 0 exactly when i < m and p[i] = c; symbols absent from the pattern
\* have the all-ones mask; the stored length is the symbol count.
C11_MaskBitsMarkPositions ==
  (phase = "pattern")
    => /\ length = CharsCount(pattern)
       /\ \A c \in TableSymbols(kind) :
            /\ \A i \in Bits :
                 (i \notin TableMask(kind, masks, c)) <=> (i < length /\ pattern[i + 1] = c)
            /\ (\A j \in 1..Len(pattern) : pattern[j] # c)
                 => TableMask(kind, masks, c) = AllOnes

\* C11 witness: a compiled Unicode pattern in which one symbol occurs at two
\* positions and so has two 0 bits in its mask.
C11_Witness ==
  /\ phase = "pattern" /\ kind = "unicode"
  /\ \E c \in DOMAIN masks : Cardinality(Bits \ masks[c]) >= 2

\* What a finished call returned.
Called(name) == kind = "call" /\ engine = name /\ phase # "call"

\* C14: bitap_reference::lev returns exactly what baseline::lev returns, the
\* same Err for an invalid pattern and the same matches otherwise.
C14_RefLevEqualsBaseline ==
  Called("bitap_reference::lev")
    => /\ (phase = "done") = baseline_lev(pattern, text, k).ok
       /\ out = baseline_lev(pattern, text, k).v

\* A call of bitap_reference::lev that found a match at a positive distance.
C14_Witness ==
  /\ Called("bitap_reference::lev") /\ phase = "done"
  /\ \E i \in 1..Len(out) : out[i].distance >= 2

\* C15: bitap_reference::osa returns exactly what baseline::osa returns.
C15_RefOsaEqualsBaseline ==
  Called("bitap_reference::osa")
    => /\ (phase = "done") = baseline_osa(pattern, text, k).ok
       /\ out = baseline_osa(pattern, text, k).v

\* A call of bitap_reference::osa whose result differs from the Levenshtein
\* one: a transposition was used.
C15_Witness ==
  /\ Called("bitap_reference::osa") /\ phase = "done"
  /\ out # ref_lev(pattern, text, k).v

AbacInAcb == pattern = Abac /\ text = Acb /\ k = 3

\* C17: on "abac" in "acb" with max distance 3 both OSA functions return
\* distances 3, 2, 3 at ends 0, 1, 2 and the unrestricted Damerau-Levenshtein
\* baseline returns 3, 2, 2: they differ at the last position only.
C17_OsaDivergesFromDamerau ==
  AbacInAcb =>
    /\ Called("bitap_reference::osa")
         => phase = "done" /\ out = <<Match(3, 0), Match(2, 1), Match(3, 2)>>
    /\ Called("baseline::osa")
         => phase = "done" /\ out = <<Match(3, 0), Match(2, 1), Match(3, 2)>>
    /\ Called("baseline::damerau")
         => phase = "done" /\ out = <<Match(3, 0), Match(2, 1), Match(2, 2)>>

\* baseline::damerau has returned on "abac" in "acb".
C17_Witness == AbacInAcb /\ Called("baseline::damerau") /\ Len(out) = 3

\* C18: a Levenshtein or OSA search constructed with max distance k starts
\* with row d equal to (NOT 1) << d for every d in 0..k.
C18_RowsSeededAtConstruction ==
  (phase = "iter" /\ pos = 0 /\ engine \in {"lev", "osa"} /\ k # UsizeMax)
    => /\ Len(r) = k + 1
       /\ \A d \in 0..k : r[d + 1] = Shl(NotOne, d)

\* C19: on an ASCII pattern the engines compile and an ASCII text,
\* reference::damerau_levenshtein returns the match sequence that
\* find_damerau_levenshtein_iter returns on the UnicodePattern, AsciiPattern
\* and AsciiOnlyPattern compiled from the same pattern.
C19_ReferenceEqualsEngineOsa ==
  (/\ Called("reference::damerau_levenshtein")
   /\ StrIsAscii(pattern) /\ StrIsAscii(text)
   /\ pattern # << >> /\ ~LengthTooLong(StrLen(pattern))
   /\ k # UsizeMax)
    => /\ phase = "done"
       /\ out = BitapDamerauLevenshtein(UnicodeSource(pattern, text), CharsCount(pattern), k)
       /\ out = BitapDamerauLevenshtein(AsciiSource(pattern, text), StrLen(pattern), k)
       /\ out = BitapDamerauLevenshtein(AsciiOnlySource(pattern, text), StrLen(pattern), k)

(***************************************************************************)
(* Several searches borrowing one compiled pattern (&self): in this        *)
(* specification text, engine, k, pos, r, trans, out and phase hold one    *)
(* value per search.                                                       *)
(***************************************************************************)
Searches == {1, 2}
SharedPatterns == StringsOfLen(AsciiAlphabet, 2) \cup {<<353, 97>>}
SharedTexts == StringsOfLen(AsciiAlphabet, 2) \cup {<<97, 353>>}

\* A compiled pattern and no search constructed yet.
InitShared ==
  /\ pattern \in SharedPatterns
  /\ kind \in {"unicode", "ascii", "asciionly"}
  /\ kind = "unicode" \/ StrIsAscii(pattern)
  /\ length = IF kind = "unicode" THEN CharsCount(pattern) ELSE StrLen(pattern)
  /\ masks = IF kind = "unicode"
             THEN UnicodeMasks(pattern, CharsCount(pattern))
             ELSE AsciiMasks(StrBytes(pattern), StrLen(pattern))
  /\ phase = [s \in Searches |-> "pattern"]
  /\ text = [s \in Searches |-> << >>]
  /\ engine = [s \in Searches |-> "none"]
  /\ k = [s \in Searches |-> 0]
  /\ pos = [s \in Searches |-> 0]
  /\ r = [s \in Searches |-> << >>]
  /\ trans = [s \in Searches |-> << >>]
  /\ out = [s \in Searches |-> << >>]

\* All searches writing one rows vector.
OneRowsForAll(rs, s, rows) == [x \in DOMAIN rs |-> rows]

\* The rows are a field of the search (`r: Vec<usize>`), owned by it.
OwnRows(rs, s, rows) == [rs EXCEPT ![s] = rows]

\* Searcher::find_iter / find_levenshtein_iter / find_damerau_levenshtein_iter
\* for search s: BitapFind::new, BitapLevenshtein::new or
\* BitapDamerauLevenshtein::new on the masks of the borrowed pattern.
SharedIter(s) ==
  /\ phase[s] = "pattern"
  /\ \E t \in SharedTexts, e \in {"find", "lev", "osa"} :
       LET kk == IF e = "find" THEN 0 ELSE 1 IN
         /\ text' = [text EXCEPT ![s] = t]
         /\ engine' = [engine EXCEPT ![s] = e]
         /\ k' = [k EXCEPT ![s] = kk]
         /\ r' = OwnRows(r, s, VecNotOne(kk + 1))
         /\ trans' = OwnRows(trans, s, IF e = "osa" THEN VecNotOne(kk) ELSE << >>)
  /\ phase' = [phase EXCEPT ![s] = "iter"]
  /\ UNCHANGED <<pattern, kind, length, masks, pos, out>>

\* The rows of search s after the row update of its engine for one mask.
SharedRows(s, mask) ==
  CASE engine[s] = "find" -> [r |-> <<FindRow(r[s][1], mask)>>, trans |-> trans[s]]
    [] engine[s] = "lev" -> [r |-> LevenshteinRows(r[s], mask), trans |-> trans[s]]
    [] engine[s] = "osa" -> DamerauRows(r[s], trans[s], mask)

\* The item search s yields for a match at distance d ending at i: the start
\* for find, the Match otherwise.
SharedItem(s, d, i) == IF engine[s] = "find" THEN i + 1 - length ELSE Match(d, i)

\* One iteration of the loop of next() of search s, running engine e, or its
\* exit at the end of the text.
SharedStep(s, e) ==
  /\ phase[s] = "iter"
  /\ engine[s] = e
  /\ LET items == IterItems(kind, text[s]) IN
       IF pos[s] >= Len(items)
       THEN /\ phase' = [phase EXCEPT ![s] = "done"]
            /\ UNCHANGED <<pos, r, trans, out>>
       ELSE LET i == pos[s]
                st == SharedRows(s, MaskIterNext(kind, masks, items[i + 1]))
                d == FirstMatchRow(st.r, length)
            IN /\ pos' = [pos EXCEPT ![s] = i + 1]
               /\ r' = OwnRows(r, s, st.r)
               /\ trans' = OwnRows(trans, s, st.trans)
               /\ out' = [out EXCEPT ![s] = IF d >= 0 THEN Append(@, SharedItem(s, d, i)) ELSE @]
               /\ phase' = phase
  /\ UNCHANGED <<pattern, kind, length, masks, text, engine, k>>

\* BitapFind::next, BitapLevenshtein::next and BitapDamerauLevenshtein::next
\* of search s.
SharedFindNext(s) == SharedStep(s, "find")
SharedLevenshteinNext(s) == SharedStep(s, "lev")
SharedDamerauLevenshteinNext(s) == SharedStep(s, "osa")

NextShared ==
  \/ \E s \in Searches : SharedIter(s)
  \/ \E s \in Searches : SharedFindNext(s)
  \/ \E s \in Searches : SharedLevenshteinNext(s)
  \/ \E s \in Searches : SharedDamerauLevenshteinNext(s)

\* Search s run alone on the same compiled pattern.
RunAlone(s) == EngineRun(engine[s], MaskSeq(kind, masks, text[s]), length, k[s])

\* The step left every search but s as it was.
OnlyTouches(s) ==
  \A x \in Searches \ {s} :
    /\ r'[x] = r[x] /\ trans'[x] = trans[x]
    /\ pos'[x] = pos[x] /\ out'[x] = out[x] /\ phase'[x] = phase[x]

\* C13: searches that share one compiled pattern and take their steps in any
\* order each return what they return alone; no step changes the pattern's
\* length or masks, and each step changes the rows, transposition rows,
\* position and output of one search only.
C13_SharedPatternSearchesIndependent ==
  /\ [](\A s \in Searches : phase[s] = "done" => out[s] = RunAlone(s))
  /\ [][/\ length' = length /\ masks' = masks
        /\ \E s \in Searches : OnlyTouches(s)]_vars

\* Two searches of different engines are both in the middle of their texts,
\* one of them with a match reported already.
C13_Witness ==
  /\ phase[1] = "iter" /\ phase[2] = "iter"
  /\ pos[1] >= 1 /\ pos[2] >= 1
  /\ engine[1] # engine[2]
  /\ text[1] # text[2]
  /\ out[1] # << >>

\* The pattern in the symbols the mask source compares: characters for a
\* UnicodePattern, bytes for the ASCII patterns.
PatternItems == IF kind = "unicode" THEN pattern ELSE StrBytes(pattern)

\* The last n symbols consumed so far.
LastConsumed(n) == SubSeq(IterItems(kind, text), pos - n + 1, pos)

InExactSearch == engine = "find" /\ phase \in {"iter", "done"}

\* C20 as stated: after each consumed symbol, bit i of r is 0 iff the last
\* i + 1 consumed symbols equal the first i + 1 pattern symbols.
C20_BitIMarksPrefixOfIPlusOne ==
  (InExactSearch /\ pos >= 1)
    => \A i \in Bits :
         (i \notin r[1])
           <=> /\ i + 1 <= pos /\ i + 1 <= length
               /\ LastConsumed(i + 1) = SubSeq(PatternItems, 1, i + 1)

\* C20 amended: in the exact engine, initially and after each consumed symbol
\* (r = (r | m) << 1), bit i of r is 0 iff at least i symbols were consumed, i
\* is at most the pattern length and the last i consumed symbols equal the
\* first i pattern symbols; bit 0 is always 0.
C20_BitIMarksPrefixOfI ==
  InExactSearch
    => \A i \in Bits :
         (i \notin r[1])
           <=> /\ i <= pos /\ i <= length
               /\ LastConsumed(i) = SubSeq(PatternItems, 1, i)

\* Two symbols consumed, a prefix of two symbols matched and some other prefix
\* not.
C20_Witness ==
  /\ InExactSearch /\ pos >= 2
  /\ \E i \in 2..length : i \notin r[1]
  /\ \E i \in 1..length : i \in r[1]

\* The two scenario patterns and the patterns at the length limit, compiled
\* and searched or passed to a whole-call function.
InitScenario ==
  /\ Init \/ InitCall
  /\ pattern \in ScenarioPatterns \cup LongPatterns

AlexInHeyImAelx == pattern = Alex /\ text = HeyImAelx /\ k = 2

\* C16: on "alex" in "hey im aelx" with max distance 2, every Levenshtein
\* search returns (2,8), (2,9), (2,10) and every OSA search returns (2,8),
\* (2,9), (1,10): the three compiled patterns and the reference module.
C16_AlexInHeyImAelx ==
  AlexInHeyImAelx =>
    /\ (kind \in {"unicode", "ascii", "asciionly"} /\ Exhausted /\ engine = "lev")
         => out = <<Match(2, 8), Match(2, 9), Match(2, 10)>>
    /\ (kind \in {"unicode", "ascii", "asciionly"} /\ Exhausted /\ engine = "osa")
         => out = <<Match(2, 8), Match(2, 9), Match(1, 10)>>
    /\ Called("reference::levenshtein")
         => phase = "done" /\ out = <<Match(2, 8), Match(2, 9), Match(2, 10)>>
    /\ Called("reference::damerau_levenshtein")
         => phase = "done" /\ out = <<Match(2, 8), Match(2, 9), Match(1, 10)>>

\* The OSA search of the AsciiOnlyPattern has consumed the whole text.
C16_Witness ==
  /\ AlexInHeyImAelx /\ kind = "asciionly" /\ engine = "osa" /\ Exhausted
  /\ Len(out) = 3

\* The mask of the symbol the next step consumes.
StepMask == MaskIterNext(kind, masks, IterItems(kind, text)[pos + 1])

\* A step of engine e that consumed a symbol and updated the rows.
StepTaken(e) == engine = e /\ phase = "iter" /\ pos' = pos + 1 /\ phase' = "iter"

And4(a, b, c, d) == And(And(a, b), And(c, d))

\* rows `new` are rows `old` after one symbol of mask m, row by row.
LevRecurrence(old, new, m) ==
  /\ Len(new) = Len(old)
  /\ new[1] = Shl(Or(old[1], m), 1)
  /\ \A d \in 1..(Len(old) - 1) :
       new[d + 1] = And4(Shl(Or(old[d + 1], m), 1), old[d], Shl(old[d], 1), Shl(new[d], 1))

\* C21: one symbol of the Levenshtein engine turns row 0 into (r[0] | m) << 1
\* and row d into ((r[d] | m) << 1) & old r[d-1] & (old r[d-1] << 1) &
\* (new r[d-1] << 1), in BitapLevenshtein::next and in the reference alike.
C21_LevenshteinRecurrence ==
  [][StepTaken("lev")
       => /\ LevRecurrence(r, r', StepMask)
          /\ LevRecurrence(r, ReferenceRows([r |-> r, trans |-> << >>], StepMask, FALSE).r,
                           StepMask)]_vars

\* Three rows, all different, after two symbols.
C21_Witness ==
  /\ engine = "lev" /\ phase = "iter" /\ pos >= 2 /\ Len(r) >= 3
  /\ r[1] # r[2] /\ r[2] # r[3] /\ r[3] # NotOne

\* rows `new` and transposition rows `newt` are `old` and `oldt` after one
\* symbol of mask m of the OSA engine.
OsaRecurrence(old, oldt, new, newt, m) ==
  /\ Len(new) = Len(old) /\ Len(newt) = Len(oldt)
  /\ new[1] = Shl(Or(old[1], m), 1)
  /\ \A d \in 1..(Len(old) - 1) :
       /\ new[d + 1] = And(And4(Shl(Or(old[d + 1], m), 1), old[d], Shl(old[d], 1),
                                Shl(new[d], 1)),
                           Shl(Or(oldt[d], Shl(m, 1)), 1))
       /\ newt[d] = Or(Shl(old[d], 1), m)

\* C22: one symbol of the OSA engine additionally ands row d with
\* (t[d-1] | (m << 1)) << 1, t[d-1] being what the previous symbol left, and
\* then sets t[d-1] to (old r[d-1] << 1) | m, in BitapDamerauLevenshtein::next
\* and in the reference alike; the transposition rows start as !1.
C22_OsaRecurrence ==
  /\ []((engine = "osa" /\ phase = "iter" /\ pos = 0)
          => /\ trans = VecNotOne(k)
             /\ ReferenceTrans(k) = VecNotOne(k))
  /\ [][StepTaken("osa")
          => /\ OsaRecurrence(r, trans, r', trans', StepMask)
             /\ LET st == ReferenceRows([r |-> r, trans |-> trans], StepMask, TRUE)
                IN OsaRecurrence(r, trans, st.r, st.trans, StepMask)]_vars

\* Two symbols consumed with two edits allowed, and a transposition row that
\* is not a shifted copy of its parent: the mask was or-ed in.
C22_Witness ==
  /\ engine = "osa" /\ phase = "iter" /\ pos >= 2 /\ Len(r) >= 3
  /\ trans[1] # trans[2]
  /\ \E d \in 1..2 : trans[d] # NotOne

\* C23: the reference and the brute-force functions return Err exactly for
\* the patterns the compiler rejects, those of 0 or of W - 1 and more symbols.
C23_ReferenceRejectsWhatCompilerRejects ==
  (\/ Called("bitap_reference::lev") \/ Called("bitap_reference::osa")
   \/ Called("baseline::lev") \/ Called("baseline::osa") \/ Called("baseline::damerau"))
    => ((phase = "err") <=> (CharsCount(pattern) = 0 \/ LengthTooLong(CharsCount(pattern))))

\* The steps of a search: next() consumes one symbol per iteration, reads
\* the symbols in order, changes the rows only when it consumes a symbol and
\* reports a match under the index of the symbol just consumed.
ForwardOnly ==
  (phase = "iter")
    => /\ pos' \in {pos, pos + 1}
       /\ pos' = pos => (r' = r /\ trans' = trans /\ out' = out)
       /\ pos' = pos + 1 => pos < Len(IterItems(kind, text))
       /\ out' # out
            => /\ Len(out') = Len(out) + 1
               /\ IF engine = "find"
                  THEN out'[Len(out')] = pos + 1 - length
                  ELSE out'[Len(out')].end = pos

\* The safety half of C24 for the searches that were constructed with rows:
\* forward-only steps, and None only when every symbol has been consumed.
OncePerSymbol ==
  /\ [][ForwardOnly]_vars
  /\ [](Exhausted => pos = Len(IterItems(kind, text)))

\* The liveness half of C24 for the searches that were constructed with rows.
NoneUnlessOverflow == (phase = "iter" /\ k # UsizeMax) ~> (phase = "done")

\* Short patterns, for the behaviours checked under fairness.
FairPatterns == StringsUpTo(Alphabet, 1)
InitFair == Init /\ pattern \in FairPatterns

\* C24: every engine advances its rows exactly once per consumed symbol,
\* reports a match under the index of the symbol just consumed, has updated
\* the rows once per text symbol when it returns None, and does return None
\* on every (finite) text.
C24_OncePerSymbolUntilNone ==
  /\ OncePerSymbol
  /\ (phase = "iter") ~> (phase = "done")

Nested(rows) == \A d \in 1..(Len(rows) - 1) : rows[d + 1] \subseteq rows[d]

\* The rows of the reference after each symbol of t from index i on.
RECURSIVE ReferenceStates(_, _, _, _, _)
ReferenceStates(ms, t, i, st, allow_transpositions) ==
  IF i >= Len(t) THEN {st}
  ELSE LET c == t[i + 1]
           letter_mask == IF c \in DOMAIN ms THEN ms[c] ELSE AllOnes
       IN {st} \cup ReferenceStates(ms, t, i + 1,
                                    ReferenceRows(st, letter_mask, allow_transpositions),
                                    allow_transpositions)

\* Every state the reference goes through on (p, t, max_distance).
ReferenceStatesOf(p, t, max_distance, allow_transpositions) ==
  LET md == Min(max_distance, CharsCount(p))
  IN ReferenceStates(ReferenceMasks(p, CharsCount(p)), t, 0,
                     [r |-> ReferenceInitRows(md), trans |-> ReferenceTrans(md)],
                     allow_transpositions)

\* C26: in the Levenshtein and OSA engines, after any number of consumed
\* symbols, every bit that is 0 in r[d] is 0 in r[d + 1]; the same in the
\* reference run on the same pattern, text and distance.
C26_RowsNested ==
  (engine \in {"lev", "osa"} /\ phase \in {"iter", "done"})
    => /\ Nested(r)
       /\ (pos = 0 /\ kind = "unicode" /\ k # UsizeMax)
            => \A st \in ReferenceStatesOf(pattern, text, k, engine = "osa") : Nested(st.r)

\* Two symbols consumed by an OSA search with three rows, all different.
C26_Witness ==
  /\ engine = "osa" /\ phase = "iter" /\ pos >= 2 /\ Len(r) >= 3
  /\ r[2] # r[1] /\ r[3] # r[2]

\* The matches of ms at distance kk or less.
WithinDistance(ms, kk) == SelectSeq(ms, LAMBDA mt : mt.distance <= kk)

\* C27: the output of a Levenshtein or OSA search for a smaller max distance
\* is the output for the larger one without the matches beyond the smaller
\* distance, in the engines and in the reference alike.
C27_SmallerDistanceIsFilter ==
  (Exhausted /\ engine \in {"lev", "osa"} /\ k # UsizeMax)
    => \A k1 \in 0..(k - 1) :
         /\ EngineRun(engine, MaskSeq(kind, masks, text), length, k1) = WithinDistance(out, k1)
         /\ kind = "unicode"
              => IF engine = "lev"
                 THEN ref_lev(pattern, text, k1).v
                        = WithinDistance(ref_lev(pattern, text, k).v, k1)
                 ELSE ref_osa(pattern, text, k1).v
                        = WithinDistance(ref_osa(pattern, text, k).v, k1)

\* A search with max distance at most the pattern length that reported
\* matches at its largest distance and at a smaller one.
C27_Witness ==
  /\ Exhausted /\ engine \in {"lev", "osa"} /\ k >= 2 /\ k <= length
  /\ \E i \in 1..Len(out) : out[i].distance = k
  /\ \E i \in 1..Len(out) : out[i].distance < k

\* Every match of lev has a match of osa at the same end with a distance
\* that is not larger.
Covers(osa, lev) ==
  \A i \in 1..Len(lev) :
    \E j \in 1..Len(osa) : osa[j].end = lev[i].end /\ osa[j].distance <= lev[i].distance

\* C28: every match the Levenshtein search reports has a counterpart at the
\* same end position, with a distance that is not larger, in the output of
\* the OSA search on the same pattern, text and max distance, in the engines
\* and in the reference alike.
C28_OsaCoversLevenshtein ==
  (Exhausted /\ engine = "lev" /\ k # UsizeMax)
    => /\ Covers(BitapDamerauLevenshtein(MaskSeq(kind, masks, text), length, k), out)
       /\ kind = "unicode"
            => Covers(ref_osa(pattern, text, k).v, ref_lev(pattern, text, k).v)

\* A Levenshtein search has reported a match that the OSA search reports at
\* a smaller distance.
C28_Witness ==
  /\ Exhausted /\ engine = "lev" /\ k # UsizeMax
  /\ LET osa == BitapDamerauLevenshtein(MaskSeq(kind, masks, text), length, k)
     IN \E i \in 1..Len(out) :
          \E j \in 1..Len(osa) : osa[j].end = out[i].end /\ osa[j].distance < out[i].distance

\* The amounts i of the shifts `1usize << i` UnicodePattern::new evaluates on
\* p: one per character, all of them before the length is looked at.
UnicodeNewShifts(p) == {i - 1 : i \in 1..CharsCount(p)}

\* The amounts of the shifts AsciiPattern::new evaluates on p: none when it
\* rejects p, one per byte in new_unchecked otherwise.
AsciiNewShifts(p) ==
  IF StrLen(p) = 0 \/ LengthTooLong(StrLen(p)) \/ ~StrIsAscii(p)
  THEN {}
  ELSE {i - 1 : i \in 1..StrLen(p)}

\* C29: every shift by a variable amount shifts by less than W: the 1 << i
\* of compilation on every pattern string, which is rejected and does not
\* overflow when it has W or more symbols, and the 1 << pattern_length of
\* the engines.
C29_ShiftsBelowWordWidth ==
  /\ kind = "unicode" => \A i \in UnicodeNewShifts(pattern) : i < W
  /\ kind \in {"ascii", "asciionly"} => \A i \in AsciiNewShifts(pattern) : i < W
  /\ engine # "none" => length < W
  /\ ~(engine = "none" /\ phase = "panic")

\* Every start of a find result fits the whole pattern into the text.
StartsInText(starts, p, t) ==
  \A i \in 1..Len(starts) : starts[i] + CharsCount(p) <= CharsCount(t)

\* C30: when the exact engine reports a match at symbol index i, at least
\* pattern_length symbols have been consumed, so i + 1 - pattern_length does
\* not go below zero and the match lies inside the text; the same for
\* end - (length - 1) in the find wrappers of the reference crate.
C30_FindStartNeverUnderflows ==
  (engine = "find")
    => /\ phase # "panic"
       /\ \A i \in 1..Len(out) :
            out[i] + length <= pos /\ pos <= Len(IterItems(kind, text))
       /\ (kind = "unicode" /\ pos = 0)
            => /\ ~ref_find(pattern, text).underflow
               /\ StartsInText(ref_find(pattern, text).v, pattern, text)
               /\ ~baseline_find(pattern, text).underflow
               /\ StartsInText(baseline_find(pattern, text).v, pattern, text)

\* A pattern of two or more symbols matched at the very start of the text.
C30_Witness ==
  /\ engine = "find" /\ phase \in {"iter", "done"}
  /\ length >= 2 /\ out # << >> /\ out[1] = 0

Spec == Init /\ [][Next]_vars
\* The consumer of a search keeps calling next() (collect(), a for loop), and
\* the loop inside next() keeps running.
SpecFair ==
  /\ InitFair /\ [][Next]_vars
  /\ WF_vars(BitapFindNext)
  /\ WF_vars(BitapLevenshteinNext)
  /\ WF_vars(BitapDamerauLevenshteinNext)
SpecCall == InitCall /\ [][NextCall]_vars
SpecShared == InitShared /\ [][NextShared]_vars
SpecScenario == InitScenario /\ [][Next \/ NextCall]_vars
====
